---------------------------- MODULE Spec2Model ----------------------------
(***************************************************************************)
(* Model of the jj conflict-marker scanner, src/src/conflict.rs.           *)
(*                                                                         *)
(* A line of text is a sequence of characters; a character is a one-       *)
(* element string, except the two tokens "U+1F600" (a character outside    *)
(* the Basic Multilingual Plane) and "\n" (the newline pushed between      *)
(* content lines).  The document is the sequence of lines that             *)
(* `content.lines()` yields.  Option<T> is a sequence of length 0 (None)   *)
(* or 1 (Some).                                                            *)
(***************************************************************************)
EXTENDS Integers, Sequences, FiniteSets, TLC

\* ------------------------------------------------------------------ text
NL == "\n"

Rep(c, n) == [i \in 1..n |-> c]

Digits == {"0", "1", "2", "3", "4", "5", "6", "7", "8", "9"}

\* characters the regex class \s accepts
Whitespace == {" ", "\t"}

\* characters outside the Basic Multilingual Plane
Astral == {"U+1F600"}

\* number of leading characters of s equal to c
RunLen(s, c) ==
    IF \A i \in 1..Len(s) : s[i] = c
    THEN Len(s)
    ELSE (CHOOSE i \in 1..Len(s) : s[i] # c /\ \A j \in 1..(i - 1) : s[j] = c) - 1

\* w occurs in s at position i
LitAt(s, i, w) ==
    /\ i + Len(w) - 1 <= Len(s)
    /\ \A k \in 1..Len(w) : s[i + k - 1] = w[k]

\* first position at or after i that does not hold a digit
DigitsEnd(s, i) ==
    IF \A k \in i..Len(s) : s[k] \in Digits
    THEN Len(s) + 1
    ELSE CHOOSE k \in i..Len(s) : s[k] \notin Digits /\ \A j \in i..(k - 1) : s[j] \in Digits

\* " [Cc]onflict \d+ of \d+" from position i; the position after it, 0 on no match
ConflictWordsEnd(s, i) ==
    IF /\ LitAt(s, i, <<" ">>)
       /\ i + 1 <= Len(s)
       /\ s[i + 1] \in {"C", "c"}
       /\ LitAt(s, i + 2, <<"o", "n", "f", "l", "i", "c", "t", " ">>)
    THEN LET e1 == DigitsEnd(s, i + 10)
         IN  IF e1 > i + 10 /\ LitAt(s, e1, <<" ", "o", "f", " ">>)
             THEN LET e2 == DigitsEnd(s, e1 + 4)
                  IN  IF e2 > e1 + 4 THEN e2 ELSE 0
             ELSE 0
    ELSE 0

\* mutant: exactly 7 marker characters
DIFF_CONFLICT_START_REGEX_Exactly7(s) ==
    LET n == RunLen(s, "<")
    IN  n = 7 /\ ConflictWordsEnd(s, n + 1) = Len(s) + 1

\* ^<{7,} [Cc]onflict \d+ of \d+$
DIFF_CONFLICT_START_REGEX(s) ==
    LET n == RunLen(s, "<")
    IN  n >= 7 /\ ConflictWordsEnd(s, n + 1) = Len(s) + 1

\* ^>{7,} [Cc]onflict \d+ of \d+ ends$
DIFF_CONFLICT_END_REGEX(s) ==
    LET n == RunLen(s, ">")
        e == ConflictWordsEnd(s, n + 1)
    IN  n >= 7 /\ e > 0 /\ LitAt(s, e, <<" ", "e", "n", "d", "s">>) /\ e + 4 = Len(s)

\* ^%{7,} .+$
DIFF_CHANGE_HEADER_REGEX(s) ==
    LET n == RunLen(s, "%")
    IN  n >= 7 /\ LitAt(s, n + 1, <<" ">>) /\ Len(s) >= n + 2

\* ^\+{7,} .+$
DIFF_CONTENTS_HEADER_REGEX(s) ==
    LET n == RunLen(s, "+")
    IN  n >= 7 /\ LitAt(s, n + 1, <<" ">>) /\ Len(s) >= n + 2

\* ^\\{7,}\s
DIFF_CONTINUATION_REGEX(s) ==
    LET n == RunLen(s, "\\")
    IN  n >= 7 /\ n + 1 <= Len(s) /\ s[n + 1] \in Whitespace

\* mutant: a ConflictStart line is a known pattern too
is_known_pattern_WithStart(content) ==
    \/ DIFF_CONFLICT_START_REGEX(content)
    \/ DIFF_CHANGE_HEADER_REGEX(content)
    \/ DIFF_CONTENTS_HEADER_REGEX(content)
    \/ DIFF_CONFLICT_END_REGEX(content)
    \/ DIFF_CONTINUATION_REGEX(content)

\* mutant: the ConflictEnd alternative is missing
is_known_pattern_NoEnd(content) ==
    \/ DIFF_CHANGE_HEADER_REGEX(content)
    \/ DIFF_CONTENTS_HEADER_REGEX(content)
    \/ DIFF_CONTINUATION_REGEX(content)

\* mutant: the Continuation alternative is missing
is_known_pattern_NoCont(content) ==
    \/ DIFF_CHANGE_HEADER_REGEX(content)
    \/ DIFF_CONTENTS_HEADER_REGEX(content)
    \/ DIFF_CONFLICT_END_REGEX(content)

is_known_pattern(content) ==
    \/ DIFF_CHANGE_HEADER_REGEX(content)
    \/ DIFF_CONTENTS_HEADER_REGEX(content)
    \/ DIFF_CONFLICT_END_REGEX(content)
    \/ DIFF_CONTINUATION_REGEX(content)

\* UTF-16 code units of one character, and of a line
Utf16Units(c) == IF c \in Astral THEN 2 ELSE 1

RECURSIVE get_utf16_len(_)
get_utf16_len(s) ==
    IF s = <<>> THEN 0 ELSE Utf16Units(Head(s)) + get_utf16_len(Tail(s))

Position(l, c) == [line |-> l, character |-> c]

Range(s, e) == [start |-> s, end |-> e]

\* ------------------------------------------------------------- documents
ConflictWords == <<" ", "C", "o", "n", "f", "l", "i", "c", "t", " ", "1", " ", "o", "f", " ", "2">>

LStart == Rep("<", 7) \o ConflictWords
LEnd == Rep(">", 7) \o ConflictWords \o <<" ", "e", "n", "d", "s">>
LChange == Rep("%", 7) \o <<" ", "U+1F600", "x">>
LContents == Rep("+", 7) \o <<" ", "y">>
LCont == Rep("\\", 7) \o <<" ", "t", "o">>
LPlain == <<"a">>
LMinus == <<"-", "b">>
LPlus == <<"+", "c">>
LEmpty == <<>>

Vocabulary == {LStart, LEnd, LChange, LContents, LCont, LPlain, LMinus, LPlus, LEmpty}

MaxLines == 4

RECURSIVE SeqsUpTo(_, _)
SeqsUpTo(S, n) ==
    IF n = 0 THEN {<<>>}
    ELSE LET shorter == SeqsUpTo(S, n - 1)
         IN  shorter \cup {Append(d, l) : d \in {x \in shorter : Len(x) = n - 1}, l \in S}

\* ----------------------------------------------------------------- state
VARIABLES
    doc,              \* the lines of the document, `content.lines()`
    lines,            \* Analyzer.lines: how many lines the iterator has yielded
    cur_line,         \* Analyzer.cur_line: Option<&str>
    cur_line_number,  \* Analyzer.cur_line_number
    conflicts,        \* Analyzer.conflicts
    pc,               \* control position inside find_conflicts
    title_range,      \* parse_diff_marker: title_range (Option while out of scope)
    blocks,           \* parse_diff_marker: blocks
    block_title,      \* parse_*_block: title_range (Option while out of scope)
    content           \* parse_*_block: content

vars == <<doc, lines, cur_line, cur_line_number, conflicts, pc,
          title_range, blocks, block_title, content>>

None == <<>>
Some(x) == <<x>>
IsSome(o) == o # <<>>
Unwrap(o) == o[1]

\* Lines::next
LinesNext == IF lines < Len(doc) THEN Some(doc[lines + 1]) ELSE None

\* mutant: the counter is incremented on every call
next_AlwaysIncrement ==
    /\ cur_line_number' = cur_line_number + 1
    /\ cur_line' = LinesNext
    /\ lines' = IF lines < Len(doc) THEN lines + 1 ELSE lines

\* Analyzer::next: the new (cur_line_number, cur_line, lines)
next ==
    /\ cur_line_number' = IF IsSome(cur_line) THEN cur_line_number + 1 ELSE cur_line_number
    /\ cur_line' = LinesNext
    /\ lines' = IF lines < Len(doc) THEN lines + 1 ELSE lines

\* mutant: lines counted from 1
get_range_of_current_line_OneBased ==
    IF IsSome(cur_line)
    THEN Some(Range(Position(cur_line_number + 1, 0),
                    Position(cur_line_number + 1, get_utf16_len(Unwrap(cur_line)))))
    ELSE None

get_range_of_current_line ==
    IF IsSome(cur_line)
    THEN Some(Range(Position(cur_line_number, 0),
                    Position(cur_line_number, get_utf16_len(Unwrap(cur_line)))))
    ELSE None

\* Analyzer::new
New(d) ==
    /\ doc = d
    /\ lines = 0
    /\ cur_line = None
    /\ cur_line_number = 0
    /\ conflicts = <<>>
    /\ pc = "find_conflicts"
    /\ title_range = None
    /\ blocks = <<>>
    /\ block_title = None
    /\ content = <<>>

Init == \E d \in SeqsUpTo(Vocabulary, MaxLines) : New(d)

\* documents that open with a ConflictStart line
MaxBodyLines == 4

InitConflict == \E d \in SeqsUpTo(Vocabulary, MaxBodyLines) : New(<<LStart>> \o d)

\* locals of parse_diff_marker and of the block parsers go out of scope
DropLocals ==
    /\ title_range' = None
    /\ blocks' = <<>>
    /\ block_title' = None
    /\ content' = <<>>

\* mutant: the ConflictStart test is inverted
FindConflicts_Inverted ==
    /\ pc = "find_conflicts"
    /\ next
    /\ pc' = IF ~IsSome(cur_line') THEN "done"
             ELSE IF ~DIFF_CONFLICT_START_REGEX(Unwrap(cur_line')) THEN "parse_diff_marker"
             ELSE "find_conflicts"
    /\ UNCHANGED <<doc, conflicts, title_range, blocks, block_title, content>>

\* find_conflicts, one iteration of `while let Some(line) = self.next()`
FindConflicts ==
    /\ pc = "find_conflicts"
    /\ next
    /\ pc' = IF ~IsSome(cur_line') THEN "done"
             ELSE IF DIFF_CONFLICT_START_REGEX(Unwrap(cur_line')) THEN "parse_diff_marker"
             ELSE "find_conflicts"
    /\ UNCHANGED <<doc, conflicts, title_range, blocks, block_title, content>>

\* parse_diff_marker, up to the block loop
ParseDiffMarker ==
    /\ pc = "parse_diff_marker"
    /\ title_range' = get_range_of_current_line
    /\ next
    /\ blocks' = <<>>
    /\ pc' = "blocks"
    /\ UNCHANGED <<doc, conflicts, block_title, content>>

\* parse_diff_marker, the head of `while let Some(cur_line) = self.cur_line`
BlockLoop ==
    /\ pc = "blocks"
    /\ pc' = IF ~IsSome(cur_line) THEN "close"
             ELSE IF DIFF_CHANGE_HEADER_REGEX(Unwrap(cur_line)) THEN "parse_change_block"
             ELSE IF DIFF_CONTENTS_HEADER_REGEX(Unwrap(cur_line)) THEN "parse_contents_block"
             ELSE "close"
    /\ UNCHANGED <<doc, lines, cur_line, cur_line_number, conflicts,
                   title_range, blocks, block_title, content>>

\* mutant: a failed block still emits what was collected, closed on the title
ReturnNone_Emit ==
    /\ pc' = "find_conflicts"
    /\ DropLocals
    /\ conflicts' = Append(conflicts,
                           [range |-> Unwrap(title_range),
                            title_range |-> Unwrap(title_range),
                            blocks |-> blocks])
    /\ UNCHANGED doc

\* a block parser returns None: parse_diff_marker returns without a record
ReturnNone ==
    /\ pc' = "find_conflicts"
    /\ DropLocals
    /\ UNCHANGED <<doc, conflicts>>

\* mutant: returning the block steps over the line that ended it
ReturnSome_Advance ==
    /\ blocks' = Append(blocks, [title_range |-> Unwrap(block_title), content |-> content])
    /\ block_title' = None
    /\ content' = <<>>
    /\ pc' = "blocks"
    /\ next
    /\ UNCHANGED <<doc, conflicts, title_range>>

\* mutant: the block is put in front of the blocks collected so far
ReturnSome_Prepend ==
    /\ blocks' = <<[title_range |-> Unwrap(block_title), content |-> content]>> \o blocks
    /\ block_title' = None
    /\ content' = <<>>
    /\ pc' = "blocks"
    /\ UNCHANGED <<doc, lines, cur_line, cur_line_number, conflicts, title_range>>

\* a block parser returns Some(block): parse_diff_marker pushes it
ReturnSome ==
    /\ blocks' = Append(blocks, [title_range |-> Unwrap(block_title), content |-> content])
    /\ block_title' = None
    /\ content' = <<>>
    /\ pc' = "blocks"
    /\ UNCHANGED <<doc, lines, cur_line, cur_line_number, conflicts, title_range>>

\* parse_change_block, header: title_range, next
ParseChangeBlock ==
    /\ pc = "parse_change_block"
    /\ block_title' = get_range_of_current_line
    /\ next
    /\ pc' = "change_skip"
    /\ UNCHANGED <<doc, conflicts, title_range, blocks, content>>

\* parse_contents_block, header: title_range, next()?
ParseContentsBlock ==
    /\ pc = "parse_contents_block"
    /\ next
    /\ IF IsSome(cur_line')
       THEN /\ block_title' = get_range_of_current_line
            /\ pc' = "contents_skip"
            /\ UNCHANGED <<doc, conflicts, title_range, blocks, content>>
       ELSE ReturnNone

\* mutant: a continuation line is looked at without advancing past it
SkipContinuationLines_NoAdvance ==
    /\ pc \in {"change_skip", "contents_skip"}
    /\ IF IsSome(cur_line) /\ DIFF_CONTINUATION_REGEX(Unwrap(cur_line))
       THEN UNCHANGED vars
       ELSE IF IsSome(cur_line)
       THEN /\ pc' = IF pc = "change_skip" THEN "change_loop" ELSE "contents_loop"
            /\ content' = <<>>
            /\ UNCHANGED <<doc, lines, cur_line, cur_line_number, conflicts,
                           title_range, blocks, block_title>>
       ELSE /\ ReturnNone
            /\ UNCHANGED <<lines, cur_line, cur_line_number>>

\* skip_continuation_lines, one iteration; on exit the parser binds
\* `content = String::new()` and `line = self.cur_line?`
SkipContinuationLines ==
    /\ pc \in {"change_skip", "contents_skip"}
    /\ IF IsSome(cur_line) /\ DIFF_CONTINUATION_REGEX(Unwrap(cur_line))
       THEN /\ next
            /\ UNCHANGED <<doc, conflicts, pc, title_range, blocks, block_title, content>>
       ELSE IF IsSome(cur_line)
       THEN /\ pc' = IF pc = "change_skip" THEN "change_loop" ELSE "contents_loop"
            /\ content' = <<>>
            /\ UNCHANGED <<doc, lines, cur_line, cur_line_number, conflicts,
                           title_range, blocks, block_title>>
       ELSE /\ ReturnNone
            /\ UNCHANGED <<lines, cur_line, cur_line_number>>

\* mutant: the separator is pushed before every line, the first included
PushLine_Always(c, piece) == Append(c, NL) \o piece

\* content.push('\n') unless content is empty, then content.push_str(piece)
PushLine(c, piece) == (IF c # <<>> THEN Append(c, NL) ELSE c) \o piece

\* line.strip_prefix("+"), or the line itself
StripPlus(line) == IF line # <<>> /\ Head(line) = "+" THEN Tail(line) ELSE line

StartsWithMinus(line) == line # <<>> /\ Head(line) = "-"

\* parse_change_block, one iteration of `while !is_known_pattern(line)`
ChangeLoop ==
    /\ pc = "change_loop"
    /\ LET line == Unwrap(cur_line)
       IN  IF is_known_pattern(line)
           THEN ReturnSome
           ELSE /\ next
                /\ IF IsSome(cur_line')
                   THEN /\ content' = IF StartsWithMinus(line) THEN content
                                      ELSE PushLine(content, StripPlus(line))
                        /\ UNCHANGED <<doc, conflicts, pc, title_range, blocks, block_title>>
                   ELSE ReturnNone

\* parse_contents_block, one iteration of `while !is_known_pattern(line)`
ContentsLoop ==
    /\ pc = "contents_loop"
    /\ LET line == Unwrap(cur_line)
       IN  IF is_known_pattern(line)
           THEN ReturnSome
           ELSE /\ next
                /\ IF IsSome(cur_line')
                   THEN /\ content' = PushLine(content, line)
                        /\ UNCHANGED <<doc, conflicts, pc, title_range, blocks, block_title>>
                   ELSE ReturnNone

\* mutant: a record is pushed even when no line is left to close it
Close_Always ==
    /\ pc = "close"
    /\ conflicts' =
         Append(conflicts,
                [range |-> Range(Unwrap(title_range).start,
                                 Position(cur_line_number,
                                          IF IsSome(cur_line)
                                          THEN get_utf16_len(Unwrap(cur_line)) ELSE 0)),
                 title_range |-> Unwrap(title_range),
                 blocks |-> blocks])
    /\ pc' = "find_conflicts"
    /\ DropLocals
    /\ UNCHANGED <<doc, lines, cur_line, cur_line_number>>

\* mutant: the line that closed a record is examined again as a ConflictStart
Close_Rescan ==
    /\ pc = "close"
    /\ conflicts' =
         IF IsSome(cur_line)
         THEN Append(conflicts,
                     [range |-> Range(Unwrap(title_range).start,
                                      Position(cur_line_number, get_utf16_len(Unwrap(cur_line)))),
                      title_range |-> Unwrap(title_range),
                      blocks |-> blocks])
         ELSE conflicts
    /\ pc' = IF IsSome(cur_line) /\ DIFF_CONFLICT_START_REGEX(Unwrap(cur_line))
             THEN "parse_diff_marker" ELSE "find_conflicts"
    /\ DropLocals
    /\ UNCHANGED <<doc, lines, cur_line, cur_line_number>>

\* mutant: the record ends where its title ends
Close_TitleEnd ==
    /\ pc = "close"
    /\ conflicts' =
         IF IsSome(cur_line)
         THEN Append(conflicts,
                     [range |-> Range(Unwrap(title_range).start, Unwrap(title_range).end),
                      title_range |-> Unwrap(title_range),
                      blocks |-> blocks])
         ELSE conflicts
    /\ pc' = "find_conflicts"
    /\ DropLocals
    /\ UNCHANGED <<doc, lines, cur_line, cur_line_number>>

\* parse_diff_marker, after the block loop: push the record if a line is present
Close ==
    /\ pc = "close"
    /\ conflicts' =
         IF IsSome(cur_line)
         THEN Append(conflicts,
                     [range |-> Range(Unwrap(title_range).start,
                                      Position(cur_line_number, get_utf16_len(Unwrap(cur_line)))),
                      title_range |-> Unwrap(title_range),
                      blocks |-> blocks])
         ELSE conflicts
    /\ pc' = "find_conflicts"
    /\ DropLocals
    /\ UNCHANGED <<doc, lines, cur_line, cur_line_number>>

Next ==
    \/ FindConflicts
    \/ ParseDiffMarker
    \/ BlockLoop
    \/ ParseChangeBlock
    \/ ParseContentsBlock
    \/ SkipContinuationLines
    \/ ChangeLoop
    \/ ContentsLoop
    \/ Close

Spec == Init /\ [][Next]_vars

\* find_conflicts runs to completion: a sequential program keeps taking steps
MaxLiveLines == 3

InitLive == \E d \in SeqsUpTo(Vocabulary, MaxLiveLines) : New(<<LStart>> \o d)

SpecLive == InitLive /\ [][Next]_vars /\ WF_vars(Next)

SpecConflict == InitConflict /\ [][Next]_vars

\* ------------------------------------------------- vocabulary of the claims
\* the five line categories of the line classifier, and plain content
Class(l) ==
    IF DIFF_CONFLICT_START_REGEX(l) THEN "ConflictStart"
    ELSE IF DIFF_CONFLICT_END_REGEX(l) THEN "ConflictEnd"
    ELSE IF DIFF_CHANGE_HEADER_REGEX(l) THEN "ChangeHeader"
    ELSE IF DIFF_CONTENTS_HEADER_REGEX(l) THEN "ContentsHeader"
    ELSE IF DIFF_CONTINUATION_REGEX(l) THEN "Continuation"
    ELSE "Plain"

\* the class of the line with 0-based index i
ClassAt(i) == Class(doc[i + 1])

Headers == {"ChangeHeader", "ContentsHeader"}
KnownPatterns == {"ChangeHeader", "ContentsHeader", "ConflictEnd", "Continuation"}

\* control positions inside parse_change_block / parse_contents_block
InBlock == {"parse_change_block", "parse_contents_block", "change_skip",
            "contents_skip", "change_loop", "contents_loop"}

\* the range of the whole line i (0-based): (i, 0) .. (i, UTF-16 length)
LineRange(i) == Range(Position(i, 0), Position(i, get_utf16_len(doc[i + 1])))

RECURSIVE Join(_)
Join(ls) ==
    IF ls = <<>> THEN <<>>
    ELSE IF Len(ls) = 1 THEN ls[1]
    ELSE ls[1] \o <<NL>> \o Join(Tail(ls))

\* str::split('\n')
RECURSIVE SplitNL(_)
SplitNL(s) ==
    IF \A i \in 1..Len(s) : s[i] # NL
    THEN <<s>>
    ELSE LET i == CHOOSE k \in 1..Len(s) : s[k] = NL /\ \A j \in 1..(k - 1) : s[j] # NL
         IN  <<SubSeq(s, 1, i - 1)>> \o SplitNL(SubSeq(s, i + 1, Len(s)))

NonEmptyLines(ls) == SelectSeq(ls, LAMBDA l : l # <<>>)

\* what the lines of a change block are to contribute: nothing for "-...",
\* the suffix for "+...", the line itself otherwise
RECURSIVE ChangeLines(_)
ChangeLines(src) ==
    IF src = <<>> THEN <<>>
    ELSE LET l == Head(src)
         IN  IF l # <<>> /\ l[1] = "-" THEN ChangeLines(Tail(src))
             ELSE IF l # <<>> /\ l[1] = "+" THEN <<SubSeq(l, 2, Len(l))>> \o ChangeLines(Tail(src))
             ELSE <<l>> \o ChangeLines(Tail(src))

\* A parsed block as the document shows it: h the header line, e the line that
\* ended it (both 0-based), content the string produced.
BlockViewsOf(bs, last) ==
    {[h |-> bs[k].title_range.start.line,
      e |-> IF k < Len(bs) THEN bs[k + 1].title_range.start.line ELSE last,
      content |-> bs[k].content] : k \in 1..Len(bs)}

EmittedViews ==
    UNION {BlockViewsOf(conflicts[i].blocks, conflicts[i].range.end.line) : i \in 1..Len(conflicts)}

\* the blocks of the conflict being parsed, seen right after a parser returned
ReturnedViews == IF pc = "blocks" THEN BlockViewsOf(blocks, cur_line_number) ELSE {}

Views == EmittedViews \cup ReturnedViews

\* first line after the header's run of continuation lines
RECURSIVE SkipRun(_)
SkipRun(i) == IF i < Len(doc) /\ ClassAt(i) = "Continuation" THEN SkipRun(i + 1) ELSE i

ContentStart(v) == SkipRun(v.h + 1)

\* the source lines between the header (after continuation lines) and the end line
SourceLines(v) == SubSeq(doc, ContentStart(v) + 1, v.e)

ExpectedLines(v) ==
    IF ClassAt(v.h) = "ChangeHeader" THEN ChangeLines(SourceLines(v)) ELSE SourceLines(v)

\* 0-based indices of the ConflictStart lines, in document order
StartLines == SelectSeq([i \in 1..Len(doc) |-> i - 1], LAMBDA i : ClassAt(i) = "ConflictStart")

\* lines i..j (0-based) are one well-formed, closed conflict: a ConflictStart,
\* one or more blocks (a header, then plain lines), a ConflictEnd
WellFormedConflict(i, j) ==
    /\ i + 2 <= j /\ j < Len(doc)
    /\ ClassAt(i) = "ConflictStart"
    /\ ClassAt(i + 1) \in Headers
    /\ \A k \in (i + 2)..(j - 1) : ClassAt(k) \in Headers \cup {"Plain"}
    /\ ClassAt(j) = "ConflictEnd"

\* the document is well-formed conflicts separated by plain lines
RECURSIVE WellFormedFrom(_)
WellFormedFrom(i) ==
    IF i >= Len(doc) THEN TRUE
    ELSE IF ClassAt(i) = "Plain" THEN WellFormedFrom(i + 1)
    ELSE \E j \in i..(Len(doc) - 1) : WellFormedConflict(i, j) /\ WellFormedFrom(j + 1)

WellFormedDoc == WellFormedFrom(0)

\* --------------------------------------------- documents of whole conflicts
WFVocabulary == {LStart, LEnd, LChange, LContents, LPlain}

MaxWFLines == 6

InitWF == \E d \in SeqsUpTo(WFVocabulary, MaxWFLines) : New(d)

SpecWF == InitWF /\ [][Next]_vars

\* ------------------------------------------------------------------ claims
\* C1: a document of N well-formed, closed, non-overlapping conflicts,
\* optionally separated by plain lines, yields exactly N records, the i-th
\* titled on the i-th ConflictStart line.
C1_Thm ==
    (pc = "done" /\ WellFormedDoc) =>
        /\ Len(conflicts) = Len(StartLines)
        /\ \A i \in 1..Len(conflicts) : conflicts[i].title_range = LineRange(StartLines[i])

\* two well-formed conflicts, the second titled after the first one's end, a
\* change block among their blocks
C1_Witness ==
    /\ pc = "done" /\ WellFormedDoc
    /\ Len(conflicts) = 2
    /\ conflicts[2].title_range.start.line > conflicts[1].range.end.line
    /\ \E v \in EmittedViews : ClassAt(v.h) = "ChangeHeader"

\* C2 (as claimed): the content of a change block is its source lines, "-"
\* lines left out, "+" lines without the "+", the others verbatim, in order.
C2_Claim ==
    \A v \in Views : ClassAt(v.h) = "ChangeHeader" => v.content = Join(ChangeLines(SourceLines(v)))

\* C3 (as claimed): the content of a contents block with at least one content
\* line is its source lines joined by one newline, none dropped; splitting on
\* newline gives the lines back.
C3_Claim ==
    \A v \in Views :
        (ClassAt(v.h) = "ContentsHeader" /\ SourceLines(v) # <<>>) =>
            /\ v.content = Join(SourceLines(v))
            /\ SplitNL(v.content) = SourceLines(v)

\* the input is exhausted: the iterator is spent and no line is current
Exhausted == ~IsSome(cur_line) /\ lines = Len(doc)

\* Scenario B: the first ConflictStart is followed by a ChangeHeader and no
\* known-pattern line comes after that header
ScenarioB ==
    \E i \in 0..(Len(doc) - 2) :
        /\ \A k \in 0..(i - 1) : ClassAt(k) # "ConflictStart"
        /\ ClassAt(i) = "ConflictStart"
        /\ ClassAt(i + 1) = "ChangeHeader"
        /\ \A k \in (i + 2)..(Len(doc) - 1) : ClassAt(k) \notin KnownPatterns

\* C4: when the input runs out while a block is being parsed the parser fails
\* and parse_diff_marker returns; no record is appended then or later, the
\* records emitted before stay as they are; Scenario B yields no conflict.
C4_Thm ==
    /\ [][(pc \in InBlock /\ ~IsSome(cur_line')) =>
            /\ conflicts' = conflicts
            /\ pc' \in {"find_conflicts", "change_skip", "contents_skip"}]_vars
    /\ [][(pc \in {"change_skip", "contents_skip"} /\ ~IsSome(cur_line)) =>
            pc' = "find_conflicts"]_vars
    /\ [][(pc \in InBlock /\ pc' = "find_conflicts") =>
            /\ conflicts' = conflicts
            /\ Exhausted']_vars
    /\ [][Exhausted => conflicts' = conflicts]_vars
    /\ []((pc = "done" /\ ScenarioB) => conflicts = <<>>)

\* a scan that had emitted a record has lost a later conflict to a failed block
C4_Witness ==
    /\ pc = "find_conflicts" /\ Exhausted
    /\ Len(conflicts) = 1
    /\ Len(StartLines) = 2
    /\ StartLines[2] = Len(doc) - 2
    /\ ClassAt(Len(doc) - 1) = "ChangeHeader"

\* some ConflictStart line does not begin a well-formed, closed conflict
HasMalformedConflict ==
    \E i \in 0..(Len(doc) - 1) :
        /\ ClassAt(i) = "ConflictStart"
        /\ ~\E j \in i..(Len(doc) - 1) : WellFormedConflict(i, j)

\* C5 (as claimed): in a document that also holds a malformed conflict, every
\* well-formed, closed conflict is emitted as a record titled on its own
\* ConflictStart line.
C5_Claim ==
    (pc = "done" /\ HasMalformedConflict) =>
        \A i \in 0..(Len(doc) - 1) :
            (\E j \in i..(Len(doc) - 1) : WellFormedConflict(i, j)) =>
                \E k \in 1..Len(conflicts) : conflicts[k].title_range = LineRange(i)

\* Scenario C: a ConflictStart, one ContentsHeader block of plain lines, then a
\* second ConflictStart as the last line; no ConflictEnd
ScenarioC ==
    /\ Len(doc) >= 3
    /\ ClassAt(0) = "ConflictStart"
    /\ ClassAt(1) = "ContentsHeader"
    /\ \A k \in 2..(Len(doc) - 2) : ClassAt(k) = "Plain"
    /\ ClassAt(Len(doc) - 1) = "ConflictStart"

\* C6 (as claimed): Scenario C yields exactly one Conflict, titled on the
\* first ConflictStart, whose range ends on the second ConflictStart line.
C6_Claim ==
    (pc = "done" /\ ScenarioC) =>
        /\ Len(conflicts) = 1
        /\ conflicts[1].title_range = LineRange(0)
        /\ conflicts[1].range.end.line = Len(doc) - 1

\* the line on which the blocks of a record stopped: the line after the title
\* for a record without blocks, else the first known-pattern line at or after
\* the last block's first content line
StopLine(c) ==
    IF c.blocks = <<>> THEN c.title_range.start.line + 1
    ELSE LET s == SkipRun(c.blocks[Len(c.blocks)].title_range.start.line + 1)
         IN  CHOOSE e \in s..Len(doc) :
                 /\ e < Len(doc) => ClassAt(e) \in KnownPatterns
                 /\ \A k \in s..(e - 1) : ClassAt(k) \notin KnownPatterns

\* C7: a record's range starts where its title_range starts (the title line,
\* column 0) and ends at (the line on which block accumulation stopped, that
\* line's UTF-16 length), a ConflictEnd line or not.
C7_Thm ==
    /\ [](\A i \in 1..Len(conflicts) :
            LET c == conflicts[i]
            IN  /\ c.range.start = c.title_range.start
                /\ c.range.start.character = 0
                /\ StopLine(c) < Len(doc)
                /\ ClassAt(StopLine(c)) \notin Headers
                /\ c.range.end = LineRange(StopLine(c)).end)
    /\ [][conflicts' # conflicts =>
            /\ IsSome(cur_line) /\ lines >= 1
            /\ Len(conflicts') = Len(conflicts) + 1
            /\ SubSeq(conflicts', 1, Len(conflicts)) = conflicts
            /\ conflicts'[Len(conflicts')].range.end = LineRange(lines - 1).end]_vars

\* a record with a block that is closed by a line other than a ConflictEnd
C7_Witness ==
    \E i \in 1..Len(conflicts) :
        /\ conflicts[i].blocks # <<>>
        /\ ClassAt(conflicts[i].range.end.line) # "ConflictEnd"
        /\ conflicts[i].range.end.character > 1

\* r is the range of the whole line it starts on, a line of one of the classes
TitleOn(r, classes) ==
    /\ r.start.line < Len(doc)
    /\ r = LineRange(r.start.line)
    /\ r.start.line = r.end.line
    /\ r.start.character = 0
    /\ ClassAt(r.start.line) \in classes

\* C8: every title_range, of a Conflict or of a block, emitted or being built,
\* is (i, 0)..(i, UTF-16 length of line i) for the header line i it was
\* recorded on; a character outside the BMP counts 2.
C8_Thm ==
    /\ \A i \in 1..Len(conflicts) :
         /\ TitleOn(conflicts[i].title_range, {"ConflictStart"})
         /\ \A k \in 1..Len(conflicts[i].blocks) :
              TitleOn(conflicts[i].blocks[k].title_range, Headers)
    /\ IsSome(title_range) => TitleOn(Unwrap(title_range), {"ConflictStart"})
    /\ \A k \in 1..Len(blocks) : TitleOn(blocks[k].title_range, Headers)
    /\ IsSome(block_title) => TitleOn(Unwrap(block_title), Headers)
    /\ pc \in {"blocks", "close"} => IsSome(title_range)
    /\ pc \in {"change_skip", "contents_skip", "change_loop", "contents_loop"} =>
         IsSome(title_range) /\ IsSome(block_title)

\* an emitted block titled on a line that holds a character outside the BMP,
\* not on the first line: UTF-16 length 11 for 10 characters
C8_Witness ==
    \E i \in 1..Len(conflicts) : \E k \in 1..Len(conflicts[i].blocks) :
        LET r == conflicts[i].blocks[k].title_range
        IN  /\ r.start.line >= 2
            /\ \E j \in 1..Len(doc[r.start.line + 1]) : doc[r.start.line + 1][j] \in Astral
            /\ r.end.character = Len(doc[r.start.line + 1]) + 1

\* C9: the lines that make a block's content hold no Continuation line and
\* the header's run of Continuation lines adds nothing to the content; only the
\* skipper steps over a Continuation line, and only while every line since the
\* header is one; in the accumulation loop a Continuation line ends the block.
C9_Thm ==
    /\ [](\A v \in Views :
            /\ \A k \in ContentStart(v)..(v.e - 1) : ClassAt(k) # "Continuation"
            /\ NonEmptyLines(SplitNL(v.content)) = NonEmptyLines(ExpectedLines(v)))
    /\ [][(pc \in InBlock /\ IsSome(cur_line) /\ Class(Unwrap(cur_line)) = "Continuation") =>
            IF cur_line_number' # cur_line_number
            THEN /\ pc \in {"change_skip", "contents_skip"}
                 /\ pc' = pc
                 /\ \A k \in (Unwrap(block_title).start.line + 1)..cur_line_number :
                        ClassAt(k) = "Continuation"
            ELSE /\ pc \in {"change_loop", "contents_loop"}
                 /\ pc' = "blocks"
                 /\ Len(blocks') = Len(blocks) + 1]_vars

\* an emitted block with a skipped Continuation line after its header, content,
\* and a Continuation line that ended it
C9_Witness ==
    \E v \in EmittedViews :
        /\ ContentStart(v) > v.h + 1
        /\ v.content # <<>>
        /\ ClassAt(v.e) = "Continuation"

\* C10 (as claimed): the content of an emitted block neither starts nor ends
\* with a newline.
C10_Claim ==
    \A v \in EmittedViews :
        v.content # <<>> => (v.content[1] # NL /\ v.content[Len(v.content)] # NL)

\* C10 (amended): the content of a block never starts with a newline, and it
\* ends with one only when the block's last content line is empty.
C10_Thm ==
    \A v \in Views :
        v.content # <<>> =>
            /\ v.content[1] # NL
            /\ v.content[Len(v.content)] = NL =>
                 /\ ExpectedLines(v) # <<>>
                 /\ ExpectedLines(v)[Len(ExpectedLines(v))] = <<>>

\* an emitted block of a content line followed by an empty one
C10_Witness ==
    \E v \in EmittedViews :
        /\ Len(ExpectedLines(v)) = 2
        /\ ExpectedLines(v)[1] # <<>>
        /\ v.content[Len(v.content)] = NL

\* ------------------------------------------------- documents of Scenario A
\* lines that match none of the five marker patterns
PlainLines == {LPlain, LMinus, LPlus, LEmpty}

\* ConflictStart, a ChangeHeader block of one "+" line and one "-" line in
\* either order, a ContentsHeader block of two plain lines, ConflictEnd
ScenarioADocs ==
    {<<LStart, LChange>> \o ch \o <<LContents, p1, p2, LEnd>> :
        ch \in {<<LPlus, LMinus>>, <<LMinus, LPlus>>}, p1 \in PlainLines, p2 \in PlainLines}

InitScenarioA == \E d \in ScenarioADocs : New(d)

SpecScenarioA == InitScenarioA /\ [][Next]_vars

\* the document has the shape of Scenario A
ScenarioA ==
    /\ Len(doc) = 8
    /\ ClassAt(0) = "ConflictStart"
    /\ ClassAt(1) = "ChangeHeader"
    /\ \E k \in {2, 3} :
         /\ doc[k + 1] # <<>> /\ doc[k + 1][1] = "+"
         /\ doc[(5 - k) + 1] # <<>> /\ doc[(5 - k) + 1][1] = "-"
    /\ ClassAt(2) = "Plain" /\ ClassAt(3) = "Plain"
    /\ ClassAt(4) = "ContentsHeader"
    /\ ClassAt(5) = "Plain" /\ ClassAt(6) = "Plain"
    /\ ClassAt(7) = "ConflictEnd"

\* the "+" line of Scenario A
PlusLineOfA == IF doc[3] # <<>> /\ doc[3][1] = "+" THEN doc[3] ELSE doc[4]

\* C11 (as claimed): Scenario A yields exactly one Conflict with exactly two
\* blocks, in order; the first block's content is the "+" line without its
\* "+", the second's is the two plain lines joined by one newline; the range
\* ends on the ConflictEnd line.
C11_Claim ==
    (pc = "done" /\ ScenarioA) =>
        /\ Len(conflicts) = 1
        /\ Len(conflicts[1].blocks) = 2
        /\ conflicts[1].blocks[1].title_range = LineRange(1)
        /\ conflicts[1].blocks[2].title_range = LineRange(4)
        /\ conflicts[1].blocks[1].content = SubSeq(PlusLineOfA, 2, Len(PlusLineOfA))
        /\ conflicts[1].blocks[2].content = doc[6] \o <<NL>> \o doc[7]
        /\ conflicts[1].range.end = LineRange(7).end

\* C12: a document in which no line matches any of the five marker patterns
\* yields no record, at the end of the scan and at every step of it.
C12_Thm ==
    (\A i \in 0..(Len(doc) - 1) : ClassAt(i) = "Plain") =>
        /\ conflicts = <<>>
        /\ pc \in {"find_conflicts", "done"}

\* the scan of a document of three plain lines, one of them empty, has ended
C12_Witness ==
    /\ pc = "done"
    /\ Len(doc) >= 3
    /\ \A i \in 0..(Len(doc) - 1) : ClassAt(i) = "Plain"
    /\ \E i \in 1..Len(doc) : doc[i] = <<>>
    /\ \E i \in 1..Len(doc) : doc[i] # <<>>

\* C13: records do not nest or overlap: of two consecutive records the earlier
\* one ends on a line strictly before the title line of the later one; records
\* are in the order of their title lines.
C13_Thm ==
    \A i \in 1..(Len(conflicts) - 1) :
        /\ conflicts[i].range.end.line < conflicts[i + 1].range.start.line
        /\ conflicts[i].title_range.start.line < conflicts[i + 1].title_range.start.line

\* two records, the first closed by a ConflictStart line, which gets no record
C13_Witness ==
    /\ Len(conflicts) = 2
    /\ ClassAt(conflicts[1].range.end.line) = "ConflictStart"
    /\ conflicts[2].range.start.line = conflicts[1].range.end.line + 1

\* C14: the blocks of a record are in source order: their title lines increase
\* strictly, lie strictly between the record's title line and the line its
\* range ends on, and are ChangeHeader or ContentsHeader lines.
C14_Thm ==
    \A i \in 1..Len(conflicts) :
        LET c == conflicts[i]
            t(k) == c.blocks[k].title_range.start.line
        IN  /\ \A k \in 1..Len(c.blocks) :
                 /\ c.title_range.start.line < t(k)
                 /\ t(k) < c.range.end.line
                 /\ ClassAt(t(k)) \in Headers
            /\ \A k \in 1..(Len(c.blocks) - 1) : t(k) < t(k + 1)

\* a record of two blocks of different kinds
C14_Witness ==
    \E i \in 1..Len(conflicts) :
        /\ Len(conflicts[i].blocks) = 2
        /\ ClassAt(conflicts[i].blocks[1].title_range.start.line)
             # ClassAt(conflicts[i].blocks[2].title_range.start.line)

\* ------------------------------------------- documents of marker-like lines
\* the longest run of marker characters tried
MaxRepeat == 8

\* spellings of the word tried
WordSpellings ==
    {<<"C", "o", "n", "f", "l", "i", "c", "t">>,
     <<"c", "o", "n", "f", "l", "i", "c", "t">>,
     <<"C", "O", "N", "F", "L", "I", "C", "T">>,
     <<"c", "o", "n", "f", "l", "i", "c", "T">>}

Lower(c) ==
    CASE c = "C" -> "c" [] c = "O" -> "o" [] c = "N" -> "n" [] c = "F" -> "f"
      [] c = "L" -> "l" [] c = "I" -> "i" [] c = "T" -> "t" [] OTHER -> c

\* "conflict" in any capitalization
AnyCase(w) == [k \in 1..Len(w) |-> Lower(w[k])] = <<"c", "o", "n", "f", "l", "i", "c", "t">>

\* "Conflict" or "conflict"
FirstLetterCase(w) == w # <<>> /\ w[1] \in {"C", "c"} /\ Tail(w) = <<"o", "n", "f", "l", "i", "c", "t">>

NumberWords == {<<" ", "1", " ", "o", "f", " ", "2">>, <<" ", "1", "0", " ", "o", "f", " ", "1", "2">>}

MarkerLines ==
    {Rep(ch, n) \o <<" ">> \o w \o nm \o e :
        ch \in {"<", ">"}, n \in 6..MaxRepeat, w \in WordSpellings, nm \in NumberWords,
        e \in {<<>>, <<" ", "e", "n", "d", "s">>}}

ClassifyBody == <<LChange, LPlain, LContents, LPlain>>

\* a change block and a contents block between a marker-like first line and a
\* ConflictEnd, or between a ConflictStart and a marker-like last line
InitClassify ==
    \E m \in MarkerLines :
        \/ New(<<m>> \o ClassifyBody \o <<LEnd>>)
        \/ New(<<LStart>> \o ClassifyBody \o <<m>>)

SpecClassify == InitClassify /\ [][Next]_vars

AllDigits(s) == s # <<>> /\ \A k \in 1..Len(s) : s[k] \in Digits

\* l is n >= least repeats of ch, a space, the word (as WordOK accepts it), a
\* space, "N of M" and then the given ending
MarkerShape(l, ch, least, WordOK(_), ending) ==
    \E n \in least..Len(l) :
        /\ SubSeq(l, 1, n) = Rep(ch, n)
        /\ n + 10 <= Len(l)
        /\ l[n + 1] = " "
        /\ WordOK(SubSeq(l, n + 2, n + 9))
        /\ l[n + 10] = " "
        /\ \E a \in 1..(Len(l) - n - 10) :
             /\ AllDigits(SubSeq(l, n + 11, n + 10 + a))
             /\ SubSeq(l, n + 11 + a, n + 14 + a) = <<" ", "o", "f", " ">>
             /\ \E b \in 1..(Len(l) - n - 14 - a) :
                  /\ AllDigits(SubSeq(l, n + 15 + a, n + 14 + a + b))
                  /\ SubSeq(l, n + 15 + a + b, Len(l)) = ending

EndsWord == <<" ", "e", "n", "d", "s">>

\* the first line has just been read by find_conflicts
FirstLineRead == lines = 1 /\ IsSome(cur_line) /\ pc \in {"find_conflicts", "parse_diff_marker"}

\* What the classification of marker lines amounts to when WordOK says which
\* spellings of the word count: the first line is parsed as a conflict exactly
\* when it is a start marker; a conflict begun by a start marker and followed
\* by two blocks is recorded exactly when the last line is an end marker; a
\* marker-like line with fewer than 7 repeats is plain content.
Classification(WordOK(_)) ==
    /\ FirstLineRead =>
         (pc = "parse_diff_marker" <=> MarkerShape(doc[1], "<", 7, WordOK, <<>>))
    /\ (pc = "done" /\ SubSeq(doc, 2, Len(doc) - 1) = ClassifyBody
          /\ MarkerShape(doc[1], "<", 7, WordOK, <<>>)) =>
         (Len(conflicts) = 1 <=> MarkerShape(doc[Len(doc)], ">", 7, WordOK, EndsWord))
    /\ \A k \in 1..Len(doc) :
         /\ MarkerShape(doc[k], "<", 7, WordOK, <<>>) => Class(doc[k]) = "ConflictStart"
         /\ MarkerShape(doc[k], ">", 7, WordOK, EndsWord) => Class(doc[k]) = "ConflictEnd"
         /\ (\E ch \in {"<", ">"}, e \in {<<>>, EndsWord} :
                /\ MarkerShape(doc[k], ch, 1, AnyCase, e)
                /\ ~MarkerShape(doc[k], ch, 7, AnyCase, e)) => Class(doc[k]) = "Plain"

\* C15 (as claimed): ConflictStart and ConflictEnd lines are recognised with 7
\* or more marker characters and the word in any capitalization; with fewer
\* than 7 the line is plain content.
C15_Claim == Classification(AnyCase)

\* C15 (amended): as claimed, but the word is "Conflict" or "conflict": only
\* its first letter may be in either case.
C15_Thm == Classification(FirstLetterCase)

\* a conflict recorded on a last line of 8 ">" and the lower-case word
C15_Witness ==
    /\ pc = "done"
    /\ Len(conflicts) = 1
    /\ SubSeq(doc[Len(doc)], 1, 10) = Rep(">", 8) \o <<" ", "c">>

\* the first known-pattern line at or after line s (0-based); Len(doc) if none
RECURSIVE FirstKnownFrom(_)
FirstKnownFrom(s) ==
    IF s >= Len(doc) THEN Len(doc)
    ELSE IF ClassAt(s) \in KnownPatterns THEN s
    ELSE FirstKnownFrom(s + 1)

\* C16: when a block parser succeeds the cursor is on a present line, the first
\* known-pattern line after the header's run of continuation lines, and the
\* step that returns the block does not move it; when a block parser fails
\* the input is exhausted.
C16_Thm ==
    /\ [][(pc \in {"change_loop", "contents_loop"} /\ pc' = "blocks") =>
            LET h == Unwrap(block_title).start.line
            IN  /\ IsSome(cur_line')
                /\ lines' >= 1
                /\ Unwrap(cur_line') = doc[lines']
                /\ cur_line_number' = lines' - 1
                /\ ClassAt(lines' - 1) \in KnownPatterns
                /\ lines' - 1 = FirstKnownFrom(SkipRun(h + 1))
                /\ <<lines', cur_line', cur_line_number'>> = <<lines, cur_line, cur_line_number>>]_vars
    /\ [][(pc \in InBlock /\ pc' \notin InBlock) =>
            \/ pc \in {"change_loop", "contents_loop"} /\ pc' = "blocks"
            \/ pc' = "find_conflicts" /\ Exhausted' /\ blocks' = <<>>]_vars

\* a block with skipped continuation lines and two content lines has just been
\* returned, the cursor on the ConflictEnd line
C16_Witness ==
    /\ pc = "blocks"
    /\ Len(blocks) = 1
    /\ IsSome(cur_line) /\ Class(Unwrap(cur_line)) = "ConflictEnd"
    /\ SkipRun(blocks[1].title_range.start.line + 1) = blocks[1].title_range.start.line + 2
    /\ cur_line_number = blocks[1].title_range.start.line + 3

\* C17: the line counter never decreases; while a line is current the counter
\* is that line's 0-based index; once the input is exhausted the counter is
\* the number of lines and stays so under further advances.
C17_Thm ==
    /\ [][cur_line_number' >= cur_line_number]_vars
    /\ [](IsSome(cur_line) =>
            /\ cur_line_number < Len(doc)
            /\ cur_line_number = lines - 1
            /\ Unwrap(cur_line) = doc[cur_line_number + 1])
    /\ [](Exhausted => cur_line_number = Len(doc))
    /\ [][Exhausted => (Exhausted' /\ cur_line_number' = cur_line_number)]_vars

\* find_conflicts has advanced once more after a block parser had exhausted
\* the input
C17_Witness ==
    /\ pc = "done"
    /\ ScenarioB
    /\ Len(doc) >= 3
    /\ cur_line_number = Len(doc)

\* how many times the cursor has advanced: 0 before the first line, k on the
\* k-th line, Len(doc) + 1 once the input is exhausted
Cursor ==
    IF IsSome(cur_line) THEN lines
    ELSE IF lines < Len(doc) THEN 0
    ELSE Len(doc) + 1

\* how many steps a control position can take before the cursor must advance
LoopRank ==
    CASE pc = "done" -> 0
      [] pc = "find_conflicts" -> 1
      [] pc = "close" -> 2
      [] pc \in {"parse_diff_marker", "parse_change_block", "parse_contents_block"} -> 3
      [] pc = "blocks" -> 4
      [] pc \in {"change_loop", "contents_loop"} -> 5
      [] pc \in {"change_skip", "contents_skip"} -> 6

Variant == (Len(doc) + 1 - Cursor) * 7 + LoopRank

\* C18: every step of the scan loop, the block loop, the accumulation loops and
\* the continuation skipper advances the cursor by one line or leaves its
\* control position without moving it; a variant bounded by the input's length
\* decreases on every step; and the scan ends, with the input exhausted.
C18_Thm ==
    /\ [][\/ Cursor' = Cursor + 1
          \/ Cursor' = Cursor /\ pc' # pc]_vars
    /\ [][Variant' < Variant]_vars
    /\ [](Variant >= 0)
    /\ [](pc = "done" => Exhausted)
    /\ <>(pc = "done" /\ Exhausted)

\* the scan has ended after the scan loop, the block loop and the continuation
\* skipper have each iterated
C18_Witness ==
    /\ pc = "done"
    /\ Exhausted
    /\ Len(conflicts) = 1
    /\ Len(conflicts[1].blocks) = 1
    /\ ClassAt(conflicts[1].blocks[1].title_range.start.line + 1) = "Continuation"

\* C19: a record with at least one block ends on a ConflictEnd or a
\* Continuation line; a record that ends on any other kind of line has no
\* blocks and ends on the line right after its title line.
C19_Thm ==
    \A i \in 1..Len(conflicts) :
        LET c == conflicts[i]
            closer == ClassAt(c.range.end.line)
        IN  /\ c.range.end.line < Len(doc)
            /\ c.blocks # <<>> => closer \in {"ConflictEnd", "Continuation"}
            /\ closer \notin {"ConflictEnd", "Continuation"} =>
                 /\ c.blocks = <<>>
                 /\ c.range.end.line = c.title_range.start.line + 1

\* one record without blocks closed by a plain line, another with a block
\* closed by a ConflictEnd line
C19_Witness ==
    /\ \E i \in 1..Len(conflicts) :
         /\ conflicts[i].blocks = <<>>
         /\ ClassAt(conflicts[i].range.end.line) = "Plain"
    /\ \E i \in 1..Len(conflicts) :
         /\ conflicts[i].blocks # <<>>
         /\ ClassAt(conflicts[i].range.end.line) = "ConflictEnd"

\* the title lines of the records emitted so far
TitleLines == {conflicts[i].title_range.start.line : i \in 1..Len(conflicts)}

\* C20: the records' titles lie on distinct ConflictStart lines, so there are
\* never more records than ConflictStart lines; every record ends on a later
\* line than it starts on; and when the last line of the input is a
\* ConflictStart line no record is titled on it.
C20_Thm ==
    /\ \A i \in 1..Len(conflicts) :
         LET c == conflicts[i]
         IN  /\ c.title_range.start.line < Len(doc)
             /\ ClassAt(c.title_range.start.line) = "ConflictStart"
             /\ c.title_range.start.line = c.title_range.end.line
             /\ c.range.start = c.title_range.start
             /\ c.range.end.line > c.range.start.line
    /\ \A i, j \in 1..Len(conflicts) :
         i # j => conflicts[i].title_range.start.line # conflicts[j].title_range.start.line
    /\ Cardinality(TitleLines) = Len(conflicts)
    /\ Len(conflicts) <= Cardinality({k \in 0..(Len(doc) - 1) : ClassAt(k) = "ConflictStart"})
    /\ (Len(doc) >= 1 /\ ClassAt(Len(doc) - 1) = "ConflictStart") =>
         (Len(doc) - 1) \notin TitleLines

\* the scan has ended on a document whose last line is a ConflictStart line
\* read by parse_diff_marker, after an earlier ConflictStart gave a record
C20_Witness ==
    /\ pc = "done"
    /\ Len(doc) >= 3
    /\ ClassAt(Len(doc) - 1) = "ConflictStart"
    /\ ClassAt(Len(doc) - 2) \in {"Plain", "ConflictEnd"}
    /\ Len(conflicts) = 1

=============================================================================
